---- MODULE Spec2Model ----
(***************************************************************************)
(* A model of tgModel (src/core/tgModel.cpp): the composite node of the    *)
(* NTRT model tree.  A node holds an ordered vector of raw child pointers  *)
(* (m_children) and a vector of marker values (m_markers).  The caller     *)
(* holds a pointer to every node it constructed and invokes the public     *)
(* member functions on the nodes that are still allocated.                 *)
(*                                                                         *)
(* Recursive member functions are modelled by recursive operators that     *)
(* thread the heap through the calls in the order of the code.  Two kinds  *)
(* of abnormal outcome exist:                                              *)
(*   - unbounded recursion (a cycle of child pointers) exhausts the call   *)
(*     stack; a call chain deeper than the number of nodes repeats a node  *)
(*     and therefore never returns, so the process ends ("crash");         *)
(*   - use of a node after `delete` and a second `delete` are undefined    *)
(*     behaviour; the model takes both outcomes a build can show: the      *)
(*     process is killed ("abort"), or it goes on with the stale contents  *)
(*     of the freed node ("continue").                                     *)
(***************************************************************************)
EXTENDS Integers, Sequences, FiniteSets, TLC

VARIABLES children, markers, released, last, nops, callerMarker

vars == <<children, markers, released, last, nops, callerMarker>>

\* ---- bounds -------------------------------------------------------------
NumNodes == 3
MaxOps == 4
MaxMarkers == 2
RelCap == 2

\* ---- domains ------------------------------------------------------------
NULL == 0
Nodes == 1..NumNodes
MarkerVals == {1, 2}
Dts == {-1, 0, 1}
Oracle == {"abort", "continue"}

Range(s) == {s[i] : i \in 1..Len(s)}

\* The heap as seen by one running operation.
Heap == [ch |-> children, mk |-> markers, rel |-> released,
         crashed |-> FALSE, thrown |-> FALSE, trace |-> <<>>, freed |-> <<>>]

Crash(st) == [st EXCEPT !.crashed = TRUE]
Throw(st) == [st EXCEPT !.thrown = TRUE]
Halted(st) == st.crashed \/ st.thrown

\* ---- tgModel::getDescendants --------------------------------------------
RECURSIVE getDescendants(_, _, _, _, _)
RECURSIVE getDescendantsLoop(_, _, _, _, _, _, _)

\* getDescendants with the child appended after its own descendants
getDescendantsLoop_PostOrder(ch, rel, self, i, result, fuel, o) ==
  IF i > Len(ch[self]) THEN [crashed |-> FALSE, seq |-> result]
  ELSE LET pChild == ch[self][i]
           cd == getDescendants(ch, rel, pChild, fuel - 1, o)
       IN IF cd.crashed THEN [crashed |-> TRUE, seq |-> <<>>]
          ELSE getDescendantsLoop(ch, rel, self, i + 1,
                                  Append(result \o cd.seq, pChild), fuel, o)

getDescendantsLoop(ch, rel, self, i, result, fuel, o) ==
  IF i > Len(ch[self]) THEN [crashed |-> FALSE, seq |-> result]
  ELSE LET pChild == ch[self][i]
           cd == getDescendants(ch, rel, pChild, fuel - 1, o)
       IN IF cd.crashed THEN [crashed |-> TRUE, seq |-> <<>>]
          ELSE getDescendantsLoop(ch, rel, self, i + 1,
                                  Append(result, pChild) \o cd.seq, fuel, o)

getDescendants(ch, rel, self, fuel, o) ==
  IF fuel = 0 \/ (rel[self] > 0 /\ o = "abort")
  THEN [crashed |-> TRUE, seq |-> <<>>]
  ELSE getDescendantsLoop(ch, rel, self, 1, <<>>, fuel, o)

\* ---- tgModel::addChild --------------------------------------------------
\* addChild without the test `pChild == this`
addChild_NoSelfCheck(st, self, pChild, o) ==
  IF pChild = NULL THEN Throw(st)
  ELSE LET descendants == getDescendants(st.ch, st.rel, self, NumNodes, o)
       IN IF descendants.crashed THEN Crash(st)
          ELSE IF pChild \in Range(descendants.seq) THEN Throw(st)
          ELSE [st EXCEPT !.ch[self] = Append(@, pChild)]

\* addChild searching m_children instead of getDescendants()
addChild_DirectOnly(st, self, pChild, o) ==
  IF pChild = NULL THEN Throw(st)
  ELSE IF pChild = self THEN Throw(st)
  ELSE IF pChild \in Range(st.ch[self]) THEN Throw(st)
  ELSE [st EXCEPT !.ch[self] = Append(@, pChild)]

\* addChild with the push_back ahead of the search for the duplicate
addChild_PushFirst(st, self, pChild, o) ==
  IF pChild = NULL THEN Throw(st)
  ELSE IF pChild = self THEN Throw(st)
  ELSE LET descendants == getDescendants(st.ch, st.rel, self, NumNodes, o)
           pushed == [st EXCEPT !.ch[self] = Append(@, pChild)]
       IN IF descendants.crashed THEN Crash(st)
          ELSE IF pChild \in Range(descendants.seq) THEN Throw(pushed)
          ELSE pushed

\* addChild inserting at the front of m_children
addChild_Prepend(st, self, pChild, o) ==
  IF pChild = NULL THEN Throw(st)
  ELSE IF pChild = self THEN Throw(st)
  ELSE LET descendants == getDescendants(st.ch, st.rel, self, NumNodes, o)
       IN IF descendants.crashed THEN Crash(st)
          ELSE IF pChild \in Range(descendants.seq) THEN Throw(st)
          ELSE [st EXCEPT !.ch[self] = <<pChild>> \o @]

addChild(st, self, pChild, o) ==
  IF pChild = NULL THEN Throw(st)
  ELSE IF pChild = self THEN Throw(st)
  ELSE LET descendants == getDescendants(st.ch, st.rel, self, NumNodes, o)
       IN IF descendants.crashed THEN Crash(st)
          ELSE IF pChild \in Range(descendants.seq) THEN Throw(st)
          ELSE [st EXCEPT !.ch[self] = Append(@, pChild)]

\* ---- tgModel::addMarker -------------------------------------------------
\* The parameter `a` is passed by value and push_back copies it: the element
\* stored in m_markers is an object of its own that holds a's value.  ALIAS
\* stands for an element that would share the caller's object instead.
ALIAS == 0
MarkerValue(x, callersValue) == IF x = ALIAS THEN callersValue ELSE x

\* addMarker keeping the caller's object instead of a copy of it
addMarker_ByReference(st, self, a) == [st EXCEPT !.mk[self] = Append(@, ALIAS)]

addMarker(st, self, a) == [st EXCEPT !.mk[self] = Append(@, a)]

\* ---- tgModel::~tgModel and the delete-expression ------------------------
RECURSIVE deleteNode(_, _, _, _)
RECURSIVE destructorLoop(_, _, _, _, _, _)

destructorLoop(st, self, i, n, fuel, o) ==
  IF st.crashed \/ i > n THEN st
  ELSE LET pChild == st.ch[self][i]
       IN destructorLoop(deleteNode(st, pChild, fuel - 1, o),
                         self, i + 1, n, fuel, o)

deleteNode(st, p, fuel, o) ==
  IF fuel = 0 THEN Crash(st)
  ELSE LET again == st.rel[p] > 0
           s0 == [st EXCEPT !.rel[p] = IF @ >= RelCap THEN RelCap ELSE @ + 1,
                            !.freed = Append(@, p)]
       IN IF again /\ o = "abort" THEN Crash(s0)
          ELSE destructorLoop(s0, p, 1, Len(s0.ch[p]), fuel, o)

\* ---- tgModel::teardown --------------------------------------------------
RECURSIVE teardown(_, _, _, _)
RECURSIVE teardownLoop(_, _, _, _, _)

teardownLoop(st, self, i, fuel, o) ==
  IF st.crashed \/ i > Len(st.ch[self]) THEN st
  ELSE LET pChild == st.ch[self][i]
           s1 == teardown(st, pChild, fuel - 1, o)
           s2 == IF s1.crashed THEN s1 ELSE deleteNode(s1, pChild, fuel - 1, o)
       IN teardownLoop(s2, self, i + 1, fuel, o)

\* teardown without the m_markers.clear()
teardown_KeepsMarkers(st, self, fuel, o) ==
  IF fuel = 0 \/ (st.rel[self] > 0 /\ o = "abort") THEN Crash(st)
  ELSE LET s1 == teardownLoop(st, self, 1, fuel, o)
       IN IF s1.crashed THEN s1
          ELSE [s1 EXCEPT !.ch[self] = <<>>]

\* teardown releasing and erasing the first child only
teardown_RemovesFirstOnly(st, self, fuel, o) ==
  IF fuel = 0 \/ (st.rel[self] > 0 /\ o = "abort") THEN Crash(st)
  ELSE IF st.ch[self] = <<>> THEN [st EXCEPT !.mk[self] = <<>>]
  ELSE LET pChild == st.ch[self][1]
           s1 == teardown(st, pChild, fuel - 1, o)
           s2 == IF s1.crashed THEN s1 ELSE deleteNode(s1, pChild, fuel - 1, o)
       IN IF s2.crashed THEN s2
          ELSE [s2 EXCEPT !.ch[self] = Tail(@), !.mk[self] = <<>>]

teardown(st, self, fuel, o) ==
  IF fuel = 0 \/ (st.rel[self] > 0 /\ o = "abort") THEN Crash(st)
  ELSE LET s1 == teardownLoop(st, self, 1, fuel, o)
       IN IF s1.crashed THEN s1
          ELSE [s1 EXCEPT !.ch[self] = <<>>, !.mk[self] = <<>>]

\* ---- tgModel::setup -----------------------------------------------------
RECURSIVE setup(_, _, _, _)
RECURSIVE setupLoop(_, _, _, _, _)

setupLoop(st, self, i, fuel, o) ==
  IF st.crashed \/ i > Len(st.ch[self]) THEN st
  ELSE setupLoop(setup(st, st.ch[self][i], fuel - 1, o), self, i + 1, fuel, o)

setup(st, self, fuel, o) ==
  IF fuel = 0 \/ (st.rel[self] > 0 /\ o = "abort") THEN Crash(st)
  ELSE setupLoop([st EXCEPT !.trace = Append(@, self)], self, 1, fuel, o)

\* ---- tgModel::step ------------------------------------------------------
RECURSIVE step(_, _, _, _, _)
RECURSIVE stepLoop(_, _, _, _, _, _, _)

stepLoop(st, self, dt, i, n, fuel, o) ==
  IF Halted(st) \/ i > n THEN st
  ELSE LET pChild == st.ch[self][i]
       IN stepLoop(step(st, pChild, dt, fuel - 1, o),
                   self, dt, i + 1, n, fuel, o)

\* step with the validation moved after the descent
step_ValidateAfter(st, self, dt, fuel, o) ==
  IF fuel = 0 \/ (st.rel[self] > 0 /\ o = "abort") THEN Crash(st)
  ELSE LET s0 == [st EXCEPT !.trace = Append(@, self)]
           s1 == stepLoop(s0, self, dt, 1, Len(s0.ch[self]), fuel, o)
       IN IF Halted(s1) THEN s1
          ELSE IF dt <= 0 THEN Throw(s1) ELSE s1

step(st, self, dt, fuel, o) ==
  IF fuel = 0 \/ (st.rel[self] > 0 /\ o = "abort") THEN Crash(st)
  ELSE LET s0 == [st EXCEPT !.trace = Append(@, self)]
       IN IF dt <= 0 THEN Throw(s0)
          ELSE stepLoop(s0, self, dt, 1, Len(s0.ch[self]), fuel, o)

\* ---- tgModel::onVisit ---------------------------------------------------
RECURSIVE onVisit(_, _, _, _)
RECURSIVE onVisitLoop(_, _, _, _, _, _)

onVisitLoop(st, self, i, n, fuel, o) ==
  IF st.crashed \/ i > n THEN st
  ELSE LET pChild == st.ch[self][i]
       IN onVisitLoop(onVisit(st, pChild, fuel - 1, o),
                      self, i + 1, n, fuel, o)

\* onVisit rendering the receiver after its children
onVisit_RenderLast(st, self, fuel, o) ==
  IF fuel = 0 \/ (st.rel[self] > 0 /\ o = "abort") THEN Crash(st)
  ELSE LET s1 == onVisitLoop(st, self, 1, Len(st.ch[self]), fuel, o)
       IN IF s1.crashed THEN s1 ELSE [s1 EXCEPT !.trace = Append(@, self)]

onVisit(st, self, fuel, o) ==
  IF fuel = 0 \/ (st.rel[self] > 0 /\ o = "abort") THEN Crash(st)
  ELSE LET s0 == [st EXCEPT !.trace = Append(@, self)]   \* r.render(*this)
       IN onVisitLoop(s0, self, 1, Len(s0.ch[self]), fuel, o)

\* ---- tgModel::getMarkers / getSenseableDescendants ----------------------
getMarkers(mk, self) == mk[self]

ModelHandle(p) == [kind |-> "model", ref |-> p, into |-> "heap"]
MarkerHandle(k, container) == [kind |-> "marker", ref |-> k, into |-> container]

\* getSenseableDescendants collecting the markers of the descendants too
getSenseableDescendants_AllMarkers(ch, mk, rel, self, fuel, o) ==
  LET myDescendants == getDescendants(ch, rel, self, fuel, o)
      owners == <<self>> \o myDescendants.seq
      RECURSIVE Collect(_)
      Collect(i) ==
        IF i > Len(owners) THEN <<>>
        ELSE [k \in 1..Len(mk[owners[i]]) |-> MarkerHandle(k, "myMarkers")]
             \o Collect(i + 1)
  IN IF myDescendants.crashed THEN [crashed |-> TRUE, seq |-> <<>>]
     ELSE [crashed |-> FALSE,
           seq |-> [i \in 1..Len(myDescendants.seq) |->
                      ModelHandle(myDescendants.seq[i])]
                   \o Collect(1)]

getSenseableDescendants(ch, mk, rel, self, fuel, o) ==
  LET myDescendants == getDescendants(ch, rel, self, fuel, o)
      myMarkers == getMarkers(mk, self)     \* a copy local to the call
      pointersToMarkers ==
        [k \in 1..Len(myMarkers) |-> MarkerHandle(k, "myMarkers")]
  IN IF myDescendants.crashed THEN [crashed |-> TRUE, seq |-> <<>>]
     ELSE [crashed |-> FALSE,
           seq |-> [i \in 1..Len(myDescendants.seq) |->
                      ModelHandle(myDescendants.seq[i])]
                   \o pointersToMarkers]

\* ---- the caller ---------------------------------------------------------
\* Undefined behaviour has two outcomes.  An operation can use a freed node
\* only if a node is already freed or some node is pointed to from two
\* places (it is then freed through one pointer and used through the other);
\* otherwise the operation has one outcome.
Aliased ==
  \E m1 \in Nodes : \E i \in 1..Len(children[m1]) :
    \E m2 \in Nodes : \E j \in 1..Len(children[m2]) :
      <<m1, i>> # <<m2, j>> /\ children[m1][i] = children[m2][j]
Outcomes ==
  IF Aliased \/ \E m \in Nodes : released[m] > 0 THEN Oracle ELSE {"continue"}

Crashed == last.ret = "crash"
Live(n) == released[n] = 0

\* No member function looks at the address of a node other than to compare
\* it with another, so nodes that are in the state they were constructed in,
\* held by nobody and not named by the latest call are interchangeable: a
\* behaviour that picks one of them is, up to renaming, the behaviour that
\* picks the first.  The caller therefore takes the first one.
Untouched(n) ==
  /\ Live(n) /\ children[n] = <<>> /\ markers[n] = <<>>
  /\ \A m \in Nodes : n \notin Range(children[m])
  /\ last.node # n
  /\ ~(last.op = "addChild" /\ last.arg = n)
FirstOf(n, others) == Untouched(n) => \A k \in others : k < n => ~Untouched(k)

CanCall(n) == ~Crashed /\ nops < MaxOps /\ Live(n) /\ FirstOf(n, Nodes)
Owned(n) == Live(n) /\ \A m \in Nodes : Live(m) => n \notin Range(children[m])

Ret(st) == IF st.crashed THEN "crash"
           ELSE IF st.thrown THEN "InvalidArgument" ELSE "ok"

Record(opName, n, a, st, res, hs) ==
  [op |-> opName, node |-> n, arg |-> a, ret |-> Ret(st),
   trace |-> st.trace, freed |-> st.freed, result |-> res, handles |-> hs,
   again |-> (last.op = opName /\ last.node = n /\ last.arg = a
              /\ last.ret = "ok")]

Commit(opName, n, a, st, res, hs) ==
  /\ children' = st.ch
  /\ markers' = st.mk
  /\ released' = st.rel
  /\ last' = Record(opName, n, a, st, res, hs)
  /\ nops' = nops + 1
  /\ callerMarker' = IF opName = "addMarker" THEN a ELSE callerMarker

Init ==
  /\ children = [n \in Nodes |-> <<>>]
  /\ markers = [n \in Nodes |-> <<>>]
  /\ released = [n \in Nodes |-> 0]
  /\ last = [op |-> "new", node |-> NULL, arg |-> 0, ret |-> "ok",
             trace |-> <<>>, freed |-> <<>>, result |-> <<>>,
             handles |-> <<>>, again |-> FALSE]
  /\ nops = 0
  /\ callerMarker = 1

AddChild(n, c) ==
  /\ CanCall(n)
  /\ IF c = NULL THEN TRUE ELSE Live(c) /\ FirstOf(c, Nodes \ {n})
  /\ \E o \in Outcomes : Commit("addChild", n, c, addChild(Heap, n, c, o), <<>>, <<>>)

\* The caller gives its marker object m the value a and calls n.addMarker(m).
AddMarker(n, a) ==
  /\ CanCall(n)
  /\ Len(markers[n]) < MaxMarkers
  /\ Commit("addMarker", n, a, addMarker(Heap, n, a), <<>>, <<>>)

Setup(n) ==
  /\ CanCall(n)
  /\ \E o \in Outcomes : Commit("setup", n, 0, setup(Heap, n, NumNodes, o), <<>>, <<>>)

Step(n, dt) ==
  /\ CanCall(n)
  /\ \E o \in Outcomes : Commit("step", n, dt, step(Heap, n, dt, NumNodes, o), <<>>, <<>>)

Teardown(n) ==
  /\ CanCall(n)
  /\ \E o \in Outcomes : Commit("teardown", n, 0, teardown(Heap, n, NumNodes, o), <<>>, <<>>)

OnVisit(n) ==
  /\ CanCall(n)
  /\ \E o \in Outcomes : Commit("onVisit", n, 0, onVisit(Heap, n, NumNodes, o), <<>>, <<>>)

GetDescendants(n) ==
  /\ CanCall(n)
  /\ \E o \in Outcomes :
       LET r == getDescendants(children, released, n, NumNodes, o)
       IN Commit("getDescendants", n, 0,
                 IF r.crashed THEN Crash(Heap) ELSE Heap, r.seq, <<>>)

GetSenseableDescendants(n) ==
  /\ CanCall(n)
  /\ \E o \in Outcomes :
       LET r == getSenseableDescendants(children, markers, released, n, NumNodes, o)
       IN Commit("getSenseableDescendants", n, 0,
                 IF r.crashed THEN Crash(Heap) ELSE Heap, <<>>, r.seq)

\* The caller destroys a node it still owns: `delete n`.
Destroy(n) ==
  /\ CanCall(n)
  /\ Owned(n)
  /\ \E o \in Outcomes : Commit("delete", n, 0, deleteNode(Heap, n, NumNodes, o), <<>>, <<>>)

\* The caller changes its own marker object m after it has passed it.
ChangeMarker(a) ==
  /\ ~Crashed /\ nops < MaxOps
  /\ \E n \in Nodes : markers[n] # <<>>
  /\ a # callerMarker
  /\ callerMarker' = a
  /\ last' = [op |-> "changeMarker", node |-> NULL, arg |-> a, ret |-> "ok",
              trace |-> <<>>, freed |-> <<>>, result |-> <<>>,
              handles |-> <<>>, again |-> FALSE]
  /\ nops' = nops + 1
  /\ UNCHANGED <<children, markers, released>>

Next ==
  \/ \E n \in Nodes, c \in Nodes \cup {NULL} : AddChild(n, c)
  \/ \E n \in Nodes, a \in MarkerVals : AddMarker(n, a)
  \/ \E n \in Nodes : Setup(n)
  \/ \E n \in Nodes, dt \in Dts : Step(n, dt)
  \/ \E n \in Nodes : Teardown(n)
  \/ \E n \in Nodes : OnVisit(n)
  \/ \E n \in Nodes : GetDescendants(n)
  \/ \E n \in Nodes : GetSenseableDescendants(n)
  \/ \E n \in Nodes : Destroy(n)
  \/ \E a \in MarkerVals : ChangeMarker(a)

Spec == Init /\ [][Next]_vars

TypeOK ==
  /\ \A n \in Nodes : released[n] \in 0..RelCap
  /\ nops \in 0..MaxOps

\* ---- vocabulary of the properties ---------------------------------------
\* What n.getDescendants() returns in the current state, when it returns.
Desc(n) == getDescendants(children, released, n, NumNodes, "continue")
Returns(n) == ~Desc(n).crashed

\* The nodes reachable from the nodes of S along child pointers.
RECURSIVE Closure(_, _, _)
Closure(ch, S, k) ==
  IF k = 0 THEN S
  ELSE Closure(ch, S \cup UNION {Range(ch[m]) : m \in S}, k - 1)
StrictDescendants(n) == Closure(children, Range(children[n]), NumNodes)

Occurrences(s, x) == Cardinality({i \in 1..Len(s) : s[i] = x})
NoRepeats(s) == \A i \in 1..Len(s), j \in 1..Len(s) : s[i] = s[j] => i = j

RECURSIVE Flatten(_)
Flatten(ss) == IF ss = <<>> THEN <<>> ELSE Head(ss) \o Flatten(Tail(ss))

\* ---- C1 -----------------------------------------------------------------
\* C1: if B is a descendant of A (B occurs in A.getDescendants()), then
\* B.addChild(A) fails with InvalidArgument and leaves the children of
\* every node unchanged.
C1_Acyclicity ==
  [][\A a \in Nodes, b \in Nodes :
       (/\ Returns(a) /\ b \in Range(Desc(a).seq)
        /\ nops' = nops + 1
        /\ last'.op = "addChild" /\ last'.node = b /\ last'.arg = a)
       => (last'.ret = "InvalidArgument" /\ children' = children)]_vars

\* ---- C2 -----------------------------------------------------------------
\* C2: after any sequence of public operations, for every node N the
\* sequence N.getDescendants() contains no node more than once and does
\* not contain N itself.
C2_DescendantsSimple ==
  \A n \in Nodes :
    (Live(n) /\ Returns(n)) => (NoRepeats(Desc(n).seq) /\ n \notin Range(Desc(n).seq))

\* ---- C3 -----------------------------------------------------------------
\* C3: every node occurs in the children sequence of at most one node, and
\* at most once in that sequence.
C3_SingleOwnership ==
  \A c \in Nodes :
    Cardinality({sl \in {<<m, i>> : m \in Nodes, i \in 1..NumNodes} :
                   /\ Live(sl[1]) /\ sl[2] <= Len(children[sl[1]])
                   /\ children[sl[1]][sl[2]] = c}) <= 1

\* ---- C4 -----------------------------------------------------------------
\* C4: no node is ever released (deleted) more than once.
C4_ReleasedOnce == \A n \in Nodes : released[n] <= 1

\* ---- C5 -----------------------------------------------------------------
\* C5: no node that is still alive has an already-released node in its
\* children sequence.
C5_NoDanglingChild ==
  \A n \in Nodes : Live(n) => \A c \in Range(children[n]) : Live(c)

\* ---- C6 -----------------------------------------------------------------
\* C6: step(dt) with dt <= 0 fails with InvalidArgument on every node and
\* the failure is raised before any descent: step is invoked on the
\* receiver alone, on none of its descendants, and nothing is changed.
C6_StepRejectsBeforeDescent ==
  [][(nops' = nops + 1 /\ last'.op = "step" /\ last'.arg <= 0) =>
       /\ last'.ret = "InvalidArgument"
       /\ last'.trace = <<last'.node>>
       /\ children' = children /\ markers' = markers /\ released' = released]_vars

C6_Witness ==
  /\ last.op = "step" /\ last.arg <= 0 /\ last.ret = "InvalidArgument"
  /\ StrictDescendants(last.node) # {}

\* ---- C7 -----------------------------------------------------------------
\* C7: step(dt) with dt > 0 succeeds on every node of any structure built
\* through the public operations, and during the call step is invoked on
\* every descendant of the receiver exactly once.
C7_StepReachesEachOnce ==
  (last.op = "step" /\ last.arg > 0) =>
     /\ last.ret = "ok"
     /\ \A d \in StrictDescendants(last.node) : Occurrences(last.trace, d) = 1

\* ---- C8 -----------------------------------------------------------------
\* C8: after teardown() has returned on a node, the node's children and
\* markers are empty and its getDescendants() returns the empty sequence;
\* a teardown() on a node that was just torn down, or that is empty,
\* changes nothing and releases no node.
C8_TeardownClearsIdempotent ==
  [][(nops' = nops + 1 /\ last'.op = "teardown" /\ last'.ret = "ok") =>
       LET n == last'.node IN
       /\ children'[n] = <<>>
       /\ markers'[n] = <<>>
       /\ getDescendants(children', released', n, NumNodes, "continue")
            = [crashed |-> FALSE, seq |-> <<>>]
       /\ (\/ (last.op = "teardown" /\ last.node = n /\ last.ret = "ok")
           \/ (children[n] = <<>> /\ markers[n] = <<>>))
          => (/\ children' = children /\ markers' = markers
              /\ released' = released /\ last'.freed = <<>>)]_vars

C8_Witness ==
  /\ last.op = "teardown" /\ last.ret = "ok" /\ last.again
  /\ \E m \in Nodes : released[m] > 0

\* ---- C9 -----------------------------------------------------------------
\* C9: getDescendants() on a node with children [C1..Cn] returns exactly
\* the concatenation, for i = 1..n in order, of Ci followed by
\* Ci.getDescendants(): it holds every strict descendant and nothing else,
\* and it is what the call hands back to the caller.
C9_DescendantsPreOrder ==
  \A n \in Nodes :
    (Live(n) /\ Returns(n)) =>
      /\ Desc(n).seq =
           Flatten([i \in 1..Len(children[n]) |->
                      <<children[n][i]>> \o Desc(children[n][i]).seq])
      /\ Range(Desc(n).seq) = StrictDescendants(n)
      /\ (last.op = "getDescendants" /\ last.node = n /\ last.ret = "ok")
           => last.result = Desc(n).seq

C9_Witness ==
  /\ last.op = "getDescendants" /\ last.ret = "ok"
  /\ Len(children[last.node]) >= 1
  /\ Len(last.result) > Len(children[last.node])
  /\ NoRepeats(last.result)

\* ---- C10 ----------------------------------------------------------------
\* C10: onVisit(visitor) on any node of a structure built through the
\* public operations renders every node of the subtree, the receiver
\* included, exactly once, the receiver first and the descendants in the
\* order of getDescendants().
C10_VisitEachOnce ==
  (last.op = "onVisit") =>
     /\ last.ret = "ok"
     /\ Returns(last.node)
     /\ last.trace = <<last.node>> \o Desc(last.node).seq
     /\ \A d \in StrictDescendants(last.node) \cup {last.node} :
          Occurrences(last.trace, d) = 1

\* ---- C11 ----------------------------------------------------------------
\* C11: getSenseableDescendants() returns |getDescendants()| + |markers of
\* the receiver| entries: first getDescendants() in the same order, then one
\* entry per marker of the receiver in insertion order; the markers of the
\* descendants contribute no entry.
C11_SenseableShape ==
  (last.op = "getSenseableDescendants" /\ last.ret = "ok") =>
     LET n == last.node
         d == Desc(n).seq
         hs == last.handles
     IN /\ Returns(n)
        /\ Len(hs) = Len(d) + Len(markers[n])
        /\ \A i \in 1..Len(d) : hs[i].kind = "model" /\ hs[i].ref = d[i]
        /\ \A k \in 1..Len(markers[n]) :
             hs[Len(d) + k].kind = "marker" /\ hs[Len(d) + k].ref = k

C11_Witness ==
  /\ last.op = "getSenseableDescendants" /\ last.ret = "ok"
  /\ markers[last.node] # <<>>
  /\ \E d \in StrictDescendants(last.node) : markers[d] # <<>>

\* ---- C12 ----------------------------------------------------------------
\* C12: every handle returned by getSenseableDescendants() refers to an
\* existing object: a live descendant node, or a marker element stored in
\* the receiver's own markers list, never an element of a copy that is gone
\* when the call returns.
C12_HandlesValid ==
  (last.op = "getSenseableDescendants" /\ last.ret = "ok") =>
     \A i \in 1..Len(last.handles) :
        LET h == last.handles[i]
        IN IF h.kind = "model" THEN Live(h.ref)
           ELSE h.into = "m_markers" /\ h.ref \in 1..Len(markers[last.node])

\* ---- C13 ----------------------------------------------------------------
\* C13: A.addChild(A) fails with InvalidArgument for every node A, with or
\* without children, in every reachable state, and changes nothing.
C13_NoSelfParenting ==
  [][(nops' = nops + 1 /\ last'.op = "addChild" /\ last'.arg = last'.node) =>
       /\ last'.ret = "InvalidArgument"
       /\ children' = children]_vars

C13_Witness ==
  /\ last.op = "addChild" /\ last.arg = last.node
  /\ last.ret = "InvalidArgument"
  /\ children[last.node] # <<>>

\* ---- C14 ----------------------------------------------------------------
\* C14: addChild(candidate) fails with InvalidArgument whenever candidate
\* occurs, at any depth, in the receiver's getDescendants() evaluated before
\* the call, and the children of every node stay as they were.  (A call
\* that ends the process returns nothing.)
C14_RejectsDescendant ==
  [][(/\ nops' = nops + 1
      /\ last'.op = "addChild" /\ last'.ret # "crash"
      /\ Returns(last'.node)
      /\ last'.arg \in Range(Desc(last'.node).seq))
       => (last'.ret = "InvalidArgument" /\ children' = children)]_vars

C14_Witness ==
  /\ last.op = "addChild" /\ last.ret = "InvalidArgument"
  /\ last.arg # NULL /\ last.arg # last.node
  /\ last.arg \notin Range(children[last.node])
  /\ \A m \in Nodes : Live(m)

\* ---- C15 ----------------------------------------------------------------
\* C15: every addChild call that fails leaves the children sequence and the
\* markers of every node exactly as they were before the call.
C15_AddChildStrongSafety ==
  [][(nops' = nops + 1 /\ last'.op = "addChild"
      /\ last'.ret = "InvalidArgument") =>
       /\ children' = children
       /\ markers' = markers
       /\ released' = released]_vars

C15_Witness ==
  /\ last.op = "addChild" /\ last.ret = "InvalidArgument"
  /\ last.arg # NULL /\ last.arg # last.node
  /\ markers[last.node] # <<>>

\* ---- C16 ----------------------------------------------------------------
\* C16: getDescendants() invoked on any node in any state reached through
\* successful addChild calls terminates and returns a sequence.
C16_GetDescendantsSucceeds ==
  (last.op = "getDescendants" /\ \A m \in Nodes : Live(m)) => last.ret = "ok"

\* ---- C17 ----------------------------------------------------------------
\* C17: addMarker(m) appends a copy of m as the last element of the
\* receiver's markers and leaves every earlier marker unchanged; a later
\* change of the caller's own m leaves every stored marker's value unchanged.
Observed(mk, callersValue, n) ==
  [k \in 1..Len(mk[n]) |-> MarkerValue(mk[n][k], callersValue)]

C17_MarkerIsolation ==
  [][/\ (nops' = nops + 1 /\ last'.op = "addMarker") =>
          /\ Observed(markers', callerMarker', last'.node)
               = Append(Observed(markers, callerMarker, last'.node), last'.arg)
          /\ \A m \in Nodes \ {last'.node} :
               Observed(markers', callerMarker', m)
                 = Observed(markers, callerMarker, m)
     /\ (nops' = nops + 1 /\ last'.op = "changeMarker") =>
          \A m \in Nodes :
             Observed(markers', callerMarker', m)
               = Observed(markers, callerMarker, m)]_vars

C17_Witness ==
  /\ last.op = "changeMarker"
  /\ \E n \in Nodes :
       /\ Len(markers[n]) >= 2
       /\ \E k \in 1..Len(markers[n]) : markers[n][k] # callerMarker

\* ---- C18 ----------------------------------------------------------------
\* C18: a successful addChild(candidate) changes exactly one thing: the
\* receiver's children become the previous sequence with candidate appended
\* as the last element; the children of every other node and all markers
\* are unchanged.
C18_AddChildAppends ==
  [][(nops' = nops + 1 /\ last'.op = "addChild" /\ last'.ret = "ok") =>
       /\ children' = [children EXCEPT ![last'.node] = Append(@, last'.arg)]
       /\ children'[last'.node] # <<>>
       /\ last'.arg \in Range(children'[last'.node])
       /\ markers' = markers
       /\ released' = released]_vars

C18_Witness ==
  /\ last.op = "addChild" /\ last.ret = "ok"
  /\ Len(children[last.node]) >= 2
  /\ \E m \in Nodes \ {last.node} : children[m] # <<>>

\* ---- C19 ----------------------------------------------------------------
\* C19: across every single operation each node's children sequence stays
\* the same, is extended by one element at the end (addChild on that node),
\* or becomes empty (teardown of that node or of an ancestor); setup, step,
\* onVisit, getDescendants and getSenseableDescendants change no children
\* and no markers sequence.
Queries == {"setup", "step", "onVisit", "getDescendants",
            "getSenseableDescendants"}

C19_NoIndividualRemoval ==
  [][(nops' = nops + 1) =>
       /\ \A m \in Nodes :
            \/ children'[m] = children[m]
            \/ /\ last'.op = "addChild" /\ last'.ret = "ok" /\ m = last'.node
               /\ children'[m] = Append(children[m], last'.arg)
            \/ /\ last'.op = "teardown"
               /\ m \in Closure(children, {last'.node}, NumNodes)
               /\ children'[m] = <<>>
       /\ last'.op \in Queries =>
            (children' = children /\ markers' = markers)]_vars

C19_Witness ==
  /\ last.op = "teardown" /\ last.ret = "ok"
  /\ Len(last.freed) >= 2

\* ---- C20 ----------------------------------------------------------------
\* C20: for any receiver on which the traversal returns, the nodes rendered
\* by onVisit, the nodes stepped by step(dt > 0) and the nodes set up by
\* setup are, element for element and with every repetition, the receiver
\* followed by getDescendants().
C20_TraversalAgreement ==
  (/\ last.ret = "ok"
   /\ \/ last.op \in {"onVisit", "setup"}
      \/ (last.op = "step" /\ last.arg > 0)) =>
     /\ Returns(last.node)
     /\ last.trace = <<last.node>> \o Desc(last.node).seq

C20_Witness ==
  /\ last.op = "onVisit" /\ last.ret = "ok"
  /\ Len(last.trace) >= 3
  /\ ~NoRepeats(last.trace)
====
